---- MODULE Spec2Model ----
(***************************************************************************)
(* Model of Codes/On-Shelf_Availability_1.py: the notebook that turns the  *)
(* sparse inventory records into one record per (date, store, sku), fills  *)
(* the gaps (forward fill of the state columns, 0 for the flow columns)    *)
(* and derives the promotion and replenishment flags.                      *)
(*                                                                         *)
(* A Spark table is an unordered multiset of rows: every table is a bag    *)
(* (a function from rows to their number of copies).  A date is a day      *)
(* number.  Each notebook cell is one action; the forward fill is taken    *)
(* one date of one (store_id, sku) partition at a time, the partitions     *)
(* being interleaved freely, as Spark's tasks are.                         *)
(***************************************************************************)
EXTENDS Integers, Sequences, FiniteSets, Bags, TLC

\* NULL of a nullable column (every column of inventory_schema is nullable)
Null == -1

\* Bounds of the input: rows of the raw table, days of the calendar.
MaxObs == 2
MaxDay == 3

Stores == {1, 2}
Skus == {100}

\* The columns the forward fill is applied to, and those defaulted to 0.
StateCols == {"shelf_capacity", "on_hand_inventory_units"}
FlowCols ==
  {"total_sales_units", "units_under_promotion", "units_in_transit",
   "units_in_dc", "units_on_order", "replenishment_units", "inventory_pipeline"}
MeasureCols == StateCols \cup FlowCols

\* One row of the raw table, in the order of inventory_schema.
RawRow(d, s, k, cat, sales, onhand, repl, pipe, transit, dc, order, promo, shelf) ==
  [date |-> d, store_id |-> s, sku |-> k, product_category |-> cat,
   total_sales_units |-> sales, on_hand_inventory_units |-> onhand,
   replenishment_units |-> repl, inventory_pipeline |-> pipe,
   units_in_transit |-> transit, units_in_dc |-> dc, units_on_order |-> order,
   units_under_promotion |-> promo, shelf_capacity |-> shelf]

\* The records the inputs are drawn from, as <<category, sales, onhand, repl,
\* pipe, transit, dc, order, promo, shelf>>: nothing recorded; a promotion
\* day; a replenishment with missing promotion; a capacity-only record with
\* missing replenishment.
RecordSamples ==
  { <<"a", Null, Null, Null, Null, Null, Null, Null, Null, Null>>,
    <<"a", 3, 1, 0, 0, 0, 0, 0, 1, Null>>,
    <<"b", 1, 2, 2, 1, 1, 1, 1, Null, 1>>,
    <<"b", 0, Null, Null, 2, 0, 1, 0, 0, 2>> }

Observations ==
  { RawRow(d, s, k, m[1], m[2], m[3], m[4], m[5], m[6], m[7], m[8], m[9], m[10]) :
      d \in 1..MaxDay, s \in Stores, k \in Skus, m \in RecordSamples }

VARIABLES
  pc,                   \* the next notebook cell to run
  inventory_raw,        \* the raw table
  start_date, end_date,
  dates,                \* the contiguous dates, ascending
  store_skus,
  inventory_with_gaps,
  inventory_cleansed,
  cursor,               \* per partition: the last date the window has scanned, 0 before the first
  last_seen,            \* per partition: the last non-null value of each state column
  inventory_final,
  osa_inventory,        \* the persisted table osa.inventory: {} until it is written
  error,                \* the exception that ended the run
  run,                  \* 1, or 2 when the notebook runs on its own output
  first_final           \* the first run's inventory_final

vars ==
  <<pc, inventory_raw, start_date, end_date, dates, store_skus,
    inventory_with_gaps, inventory_cleansed, cursor, last_seen,
    inventory_final, osa_inventory, error, run, first_final>>

(***************************************************************************)
(* Bags                                                                    *)
(***************************************************************************)
NoRows == <<>>

Rows(B) == DOMAIN B

RECURSIVE Copies(_, _)
Copies(S, B) ==
  IF S = {} THEN 0
  ELSE LET r == CHOOSE x \in S : TRUE IN B[r] + Copies(S \ {r}, B)

\* The number of rows of B, copies counted.
Count(B) == Copies(DOMAIN B, B)

\* The table whose rows are f[r], r a row of B (a row-local withColumn).
MapRows(f, B) ==
  LET img == { f[r] : r \in DOMAIN B }
  IN  [q \in img |-> Copies({ r \in DOMAIN B : f[r] = q }, B)]

SeqToBag(s) ==
  [o \in { s[i] : i \in DOMAIN s } |-> Cardinality({ i \in DOMAIN s : s[i] = o })]

Max(S) == CHOOSE x \in S : \A y \in S : y <= x
Min(S) == CHOOSE x \in S : \A y \in S : x <= y

KeyOf(r) == <<r.store_id, r.sku>>

(***************************************************************************)
(* The notebook's state before its first cell                              *)
(***************************************************************************)
Tables ==
  { SeqToBag(s) : s \in UNION { [1..n -> Observations] : n \in 0..MaxObs } }

Init ==
  /\ inventory_raw \in Tables
  /\ pc = "range"
  /\ start_date = Null
  /\ end_date = Null
  /\ dates = <<>>
  /\ store_skus = NoRows
  /\ inventory_with_gaps = NoRows
  /\ inventory_cleansed = NoRows
  /\ cursor = <<>>
  /\ last_seen = <<>>
  /\ inventory_final = NoRows
  /\ osa_inventory = {}
  /\ error = "none"
  /\ run = 1
  /\ first_final = NoRows

(***************************************************************************)
(* Assemble Complete Set of Dates                                          *)
(***************************************************************************)
\* f.min / f.max over the whole table: NULL when the table has no rows.
AggMin(B) == IF Rows(B) = {} THEN Null ELSE Min({ r.date : r \in Rows(B) })
AggMax(B) == IF Rows(B) = {} THEN Null ELSE Max({ r.date : r \in Rows(B) })

ComputeRange ==
  /\ pc = "range"
  /\ start_date' = AggMin(inventory_raw)
  /\ end_date' = AggMax(inventory_raw)
  /\ pc' = "dates"
  /\ UNCHANGED <<inventory_raw, dates, store_skus, inventory_with_gaps,
                 inventory_cleansed, cursor, last_seen, inventory_final,
                 osa_inventory, error, run, first_final>>

\* Mutation of CanSubtract: the subtraction accepts missing dates.
CanSubtractAlways(e, s) == TRUE

\* end_date - start_date is a date subtraction: None - None raises TypeError.
CanSubtract(e, s) == e # Null /\ s # Null

\* Mutation of DaysInRange: one day too many.
DaysInRangeOffByOne(e, s) == (e - s) + 2

DaysInRange(e, s) == (e - s) + 1

DateRange(e, s) == [i \in 1..DaysInRange(e, s) |-> s + (i - 1)]

GenerateDates ==
  /\ pc = "dates"
  /\ IF CanSubtract(end_date, start_date)
       THEN /\ dates' = DateRange(end_date, start_date)
            /\ pc' = "store_skus"
            /\ error' = error
       ELSE /\ dates' = dates
            /\ pc' = "failed"
            /\ error' = "TypeError"
  /\ UNCHANGED <<inventory_raw, start_date, end_date, store_skus,
                 inventory_with_gaps, inventory_cleansed, cursor, last_seen,
                 inventory_final, osa_inventory, run, first_final>>

(***************************************************************************)
(* Assemble Complete Set of Stores-SKUs                                    *)
(***************************************************************************)
\* groupBy('store_id','sku'): the groups, and the rows of one group.
GroupKeys(B) == { KeyOf(r) : r \in Rows(B) }
Group(B, k) == { r \in Rows(B) : KeyOf(r) = k }

\* f.last('product_category') takes the value of the row the group happens
\* to end with; the table was repartitioned, so any row of the group may be it.
AssembleStoreSkus ==
  /\ pc = "store_skus"
  /\ \E last \in [GroupKeys(inventory_raw) -> Rows(inventory_raw)] :
       /\ \A k \in GroupKeys(inventory_raw) : last[k] \in Group(inventory_raw, k)
       /\ store_skus' =
            SetToBag({ [store_id |-> k[1], sku |-> k[2],
                        product_category |-> last[k].product_category] :
                       k \in GroupKeys(inventory_raw) })
  /\ pc' = "join"
  /\ UNCHANGED <<inventory_raw, start_date, end_date, dates,
                 inventory_with_gaps, inventory_cleansed, cursor, last_seen,
                 inventory_final, osa_inventory, error, run, first_final>>

(***************************************************************************)
(* Generate Complete Set of Inventory Records                              *)
(***************************************************************************)
\* dates.crossJoin(store_skus): the expected <<date, store-sku row>> pairs.
CrossJoin(ds, B) == { <<ds[i], ks>> : i \in DOMAIN ds, ks \in Rows(B) }

\* on=['date','store_id','sku']
JoinsOn(e, o) ==
  o.date = e[1] /\ o.store_id = e[2].store_id /\ o.sku = e[2].sku

\* An expected row with no raw row: every raw column is NULL.
Unmatched(e) ==
  RawRow(e[1], e[2].store_id, e[2].sku, e[2].product_category,
         Null, Null, Null, Null, Null, Null, Null, Null, Null)

\* Mutation of Matched: the join keeps the left side's columns only.
MatchedLeftOnly(e, o) == Unmatched(e)

\* A matched row: the raw row with its product_category dropped and the
\* store-sku's kept.
Matched(e, o) == [o EXCEPT !.product_category = e[2].product_category]

RECURSIVE PairCopies(_, _, _)
PairCopies(S, L, R) ==
  IF S = {} THEN 0
  ELSE LET m == CHOOSE x \in S : TRUE
       IN  L[m[1][2]] * R[m[2]] + PairCopies(S \ {m}, L, R)

LeftOuterJoin(ds, L, R) ==
  LET left == CrossJoin(ds, L)
      pairs == { m \in left \X Rows(R) : JoinsOn(m[1], m[2]) }
      alone == { e \in left : \A o \in Rows(R) : ~JoinsOn(e, o) }
      rows == { Matched(m[1], m[2]) : m \in pairs } \cup { Unmatched(e) : e \in alone }
  IN  [q \in rows |->
         PairCopies({ m \in pairs : Matched(m[1], m[2]) = q }, L, R)
         + Copies({ e[2] : e \in { x \in alone : Unmatched(x) = q } }, L)]

GenerateRecords ==
  /\ pc = "join"
  /\ inventory_with_gaps' = LeftOuterJoin(dates, store_skus, inventory_raw)
  /\ pc' = "impute"
  /\ UNCHANGED <<inventory_raw, start_date, end_date, dates, store_skus,
                 inventory_cleansed, cursor, last_seen, inventory_final,
                 osa_inventory, error, run, first_final>>

(***************************************************************************)
(* Impute Missing Values                                                   *)
(***************************************************************************)
\* Mutation of InPartition: PARTITION BY sku alone.
InPartitionBySku(r, k) == r.sku = k[2]

\* PARTITION BY store_id, sku: whether row r is in the partition of k.
InPartition(r, k) == r.store_id = k[1] /\ r.sku = k[2]

Partitions(B) == { KeyOf(r) : r \in Rows(B) }

\* inventory_cleansed = inventory_with_gaps; every window starts before its
\* partition's first row, with nothing seen.
BeginImpute ==
  /\ pc = "impute"
  /\ inventory_cleansed' = inventory_with_gaps
  /\ cursor' = [k \in Partitions(inventory_with_gaps) |-> 0]
  /\ last_seen' =
       [k \in Partitions(inventory_with_gaps) |-> [c \in StateCols |-> Null]]
  /\ pc' = "fill"
  /\ UNCHANGED <<inventory_raw, start_date, end_date, dates, store_skus,
                 inventory_with_gaps, inventory_final, osa_inventory, error,
                 run, first_final>>

\* ORDER BY date: the dates of partition k the window has still to scan.
Ahead(B, k, at) == { r.date : r \in { x \in Rows(B) : InPartition(x, k) /\ x.date > at } }

\* Mutation of LastIgnoreNulls: LAST(c) without ignorenulls.
LastKeepNulls(prev, vals) == vals

\* LAST(c, True) over the frame that ends with the current row's peers (the
\* rows of the same date): the last non-null value.  The peers come in no
\* fixed order, so any non-null value among them may be the last; with none,
\* the value is the one the frame had before them.
LastIgnoreNulls(prev, vals) ==
  IF vals \ {Null} # {} THEN vals \ {Null} ELSE {prev}

\* The values the state columns of a table hold, NULL among them.
StateValues(B) == { r[c] : r \in Rows(B), c \in StateCols } \cup {Null}

\* The rows of partition k with date d: the current row's peers.
Peers(B, k, d) == { r \in Rows(B) : InPartition(r, k) /\ r.date = d }

\* Row r after the window has reached date d of partition k: a peer holds
\* the window's values, any other row is as it was.
Filled(r, k, d, seen) ==
  IF InPartition(r, k) /\ r.date = d
    THEN [r EXCEPT !.shelf_capacity = seen["shelf_capacity"],
                   !.on_hand_inventory_units = seen["on_hand_inventory_units"]]
    ELSE r

FillStep(k) ==
  /\ pc = "fill"
  /\ Ahead(inventory_cleansed, k, cursor[k]) # {}
  /\ \E d \in {Min(Ahead(inventory_cleansed, k, cursor[k]))} :
       \E seen \in [StateCols -> StateValues(inventory_cleansed)] :
         /\ \A c \in StateCols :
              seen[c] \in LastIgnoreNulls(last_seen[k][c],
                                         { r[c] : r \in Peers(inventory_cleansed, k, d) })
         /\ last_seen' = [last_seen EXCEPT ![k] = seen]
         /\ cursor' = [cursor EXCEPT ![k] = d]
         /\ inventory_cleansed' =
              MapRows([r \in Rows(inventory_cleansed) |-> Filled(r, k, d, seen)],
                      inventory_cleansed)
  /\ UNCHANGED <<pc, inventory_raw, start_date, end_date, dates, store_skus,
                 inventory_with_gaps, inventory_final, osa_inventory, error,
                 run, first_final>>

\* Mutation of FillNa: 0 written over every flow value, null or not.
FillNaOverwrite(r) ==
  [c \in DOMAIN r |-> IF c \in FlowCols THEN 0 ELSE r[c]]

\* Mutation of FillNa: inventory_pipeline left out of the column list.
FillNaSkip(r) ==
  [c \in DOMAIN r |->
     IF c \in (FlowCols \ {"inventory_pipeline"}) /\ r[c] = Null THEN 0 ELSE r[c]]

\* fillna(0, [the flow columns])
FillNa(r) ==
  [c \in DOMAIN r |-> IF c \in FlowCols /\ r[c] = Null THEN 0 ELSE r[c]]

ZeroFill ==
  /\ pc = "fill"
  /\ \A k \in DOMAIN cursor : Ahead(inventory_cleansed, k, cursor[k]) = {}
  /\ inventory_cleansed' =
       MapRows([r \in Rows(inventory_cleansed) |-> FillNa(r)], inventory_cleansed)
  /\ pc' = "flags"
  /\ UNCHANGED <<inventory_raw, start_date, end_date, dates, store_skus,
                 inventory_with_gaps, cursor, last_seen, inventory_final,
                 osa_inventory, error, run, first_final>>

(***************************************************************************)
(* Calculate Inventory Flags                                               *)
(***************************************************************************)
\* Mutation of CaseFlag: >= for >.
CaseFlagNonNegative(v) == IF v # Null /\ v >= 0 THEN 1 ELSE 0

\* CASE WHEN v > 0 THEN 1 ELSE 0 END (NULL > 0 is not true)
CaseFlag(v) == IF v # Null /\ v > 0 THEN 1 ELSE 0

WithFlags(r) ==
  [c \in DOMAIN r \cup {"promotion_flag", "replenishment_flag"} |->
     IF c = "promotion_flag" THEN CaseFlag(r.units_under_promotion)
     ELSE IF c = "replenishment_flag" THEN CaseFlag(r.replenishment_units)
     ELSE r[c]]

CalculateFlags ==
  /\ pc = "flags"
  /\ inventory_final' =
       MapRows([r \in Rows(inventory_cleansed) |-> WithFlags(r)], inventory_cleansed)
  /\ pc' = "persist"
  /\ UNCHANGED <<inventory_raw, start_date, end_date, dates, store_skus,
                 inventory_with_gaps, inventory_cleansed, cursor, last_seen,
                 osa_inventory, error, run, first_final>>

(***************************************************************************)
(* Persist Updated Inventory Data                                          *)
(***************************************************************************)
Persist ==
  /\ pc = "persist"
  /\ osa_inventory' = {inventory_final}
  /\ pc' = "done"
  /\ UNCHANGED <<inventory_raw, start_date, end_date, dates, store_skus,
                 inventory_with_gaps, inventory_cleansed, cursor, last_seen,
                 inventory_final, error, run, first_final>>

(***************************************************************************)
(* The notebook run again, its output as the raw table                     *)
(***************************************************************************)
\* A row of the output in the raw table's shape: the two flags dropped.
AsObservation(r) ==
  [c \in DOMAIN r \ {"promotion_flag", "replenishment_flag"} |-> r[c]]

Rerun ==
  /\ pc = "done"
  /\ run = 1
  /\ inventory_raw' =
       MapRows([r \in Rows(inventory_final) |-> AsObservation(r)], inventory_final)
  /\ first_final' = inventory_final
  /\ run' = 2
  /\ pc' = "range"
  /\ start_date' = Null
  /\ end_date' = Null
  /\ dates' = <<>>
  /\ store_skus' = NoRows
  /\ inventory_with_gaps' = NoRows
  /\ inventory_cleansed' = NoRows
  /\ cursor' = <<>>
  /\ last_seen' = <<>>
  /\ inventory_final' = NoRows
  /\ UNCHANGED <<osa_inventory, error>>

Next ==
  \/ ComputeRange
  \/ GenerateDates
  \/ AssembleStoreSkus
  \/ GenerateRecords
  \/ BeginImpute
  \/ \E k \in DOMAIN cursor : FillStep(k)
  \/ ZeroFill
  \/ CalculateFlags
  \/ Persist

Spec == Init /\ [][Next]_vars

SpecRerun == Init /\ [][Next \/ Rerun]_vars

(***************************************************************************)
(* What the properties are stated in: the raw table as read, and the       *)
(* finished output                                                         *)
(***************************************************************************)
\* inventory_final has been computed.
Finished == pc \in {"persist", "done"}

RowsAt(B, d, k) == { r \in Rows(B) : r.date = d /\ KeyOf(r) = k }
CountAt(B, d, k) == Copies(RowsAt(B, d, k), B)

\* DateRange and KeyUniverse of the raw table.
ObservedKeys == { KeyOf(o) : o \in Rows(inventory_raw) }
ObservedDays ==
  IF Rows(inventory_raw) = {} THEN {}
  ELSE Min({ o.date : o \in Rows(inventory_raw) })
         .. Max({ o.date : o \in Rows(inventory_raw) })

\* The non-null values of column c among the Observations of Key k on day d.
NonNullAt(c, d, k) == { o[c] : o \in RowsAt(inventory_raw, d, k) } \ {Null}

\* The days up to d on which Key k has a non-null value of column c.
KnownBy(c, d, k) == { x \in 1..d : NonNullAt(c, x, k) # {} }

\* An Observation's flow value as the output must show it.
Defaulted(v) == IF v = Null THEN 0 ELSE v

(***************************************************************************)
(* C1: for any non-empty raw table, the output holds every (date, Key) of  *)
(* DateRange x KeyUniverse exactly once, so it has                         *)
(* ((max_date - min_date) + 1) * |KeyUniverse| rows.                       *)
(* Violated: two Observations of one Key on one day give two output rows.  *)
(***************************************************************************)
C1_OneRowPerDateKey ==
  (Finished /\ Rows(inventory_raw) # {}) =>
    /\ \A d \in ObservedDays, k \in ObservedKeys : CountAt(inventory_final, d, k) = 1
    /\ Count(inventory_final) = Cardinality(ObservedDays) * Cardinality(ObservedKeys)

(***************************************************************************)
(* C2: in the output, a state column of Key k on day d holds the non-null  *)
(* value of k's Observation on the greatest day d' <= d that has one (one  *)
(* of them when several Observations of k share that day), and null when   *)
(* k has no non-null value on any day <= d.                                *)
(***************************************************************************)
C2_CarryForward ==
  Finished =>
    \A d \in ObservedDays, k \in ObservedKeys :
      /\ RowsAt(inventory_final, d, k) # {}
      /\ \A r \in RowsAt(inventory_final, d, k), c \in StateCols :
           IF KnownBy(c, d, k) = {}
             THEN r[c] = Null
             ELSE r[c] \in NonNullAt(c, Max(KnownBy(c, d, k)), k)

\* A Key with a value on day 1 carried over two days without Observations,
\* beside a Key first observed on day 3, with a null on-hand value, whose
\* on-hand value is null on days 1 to 3.
C2_Witness ==
  /\ Finished
  /\ \E k \in ObservedKeys :
       /\ NonNullAt("on_hand_inventory_units", 1, k) # {}
       /\ \A d \in {2, 3} :
            /\ RowsAt(inventory_raw, d, k) = {}
            /\ \E r \in RowsAt(inventory_final, d, k) :
                 r.on_hand_inventory_units # Null
  /\ \E k \in ObservedKeys :
       /\ \A d \in {1, 2} : RowsAt(inventory_raw, d, k) = {}
       /\ RowsAt(inventory_raw, 3, k) # {}
       /\ \A d \in {1, 2, 3} :
            \E r \in RowsAt(inventory_final, d, k) : r.on_hand_inventory_units = Null

(***************************************************************************)
(* C3: in every output row every flow column is non-null: 0 when the row   *)
(* has no Observation or the Observation's value is null, the              *)
(* Observation's value otherwise.                                          *)
(***************************************************************************)
C3_FlowZeroFilled ==
  Finished =>
    \A r \in Rows(inventory_final) :
      /\ \A c \in FlowCols : r[c] # Null
      /\ IF RowsAt(inventory_raw, r.date, KeyOf(r)) = {}
           THEN \A c \in FlowCols : r[c] = 0
           ELSE \E o \in RowsAt(inventory_raw, r.date, KeyOf(r)) :
                  \A c \in FlowCols : r[c] = Defaulted(o[c])

\* One output holds a row without Observation, a row whose Observation had
\* a null flow value, and a row whose Observation's positive value is kept.
C3_Witness ==
  /\ Finished
  /\ \E r \in Rows(inventory_final) :
       RowsAt(inventory_raw, r.date, KeyOf(r)) = {} /\ r.total_sales_units = 0
  /\ \E o \in Rows(inventory_raw) :
       /\ o.units_under_promotion = Null
       /\ o.replenishment_units > 0
       /\ \E r \in RowsAt(inventory_final, o.date, KeyOf(o)) :
            /\ r.units_under_promotion = 0
            /\ r.replenishment_units = o.replenishment_units

(***************************************************************************)
(* C4: every Observation's measures appear unmodified in exactly one       *)
(* output row, the row of its (date, store, sku): none is dropped, none    *)
(* duplicated, and no measure of an observed row is changed.               *)
(* Violated: a null measure of an observed row is imputed.                 *)
(***************************************************************************)
C4_MeasuresUnmodified ==
  Finished =>
    \A o \in Rows(inventory_raw) :
      Copies({ r \in RowsAt(inventory_final, o.date, KeyOf(o)) :
                 \A c \in MeasureCols : r[c] = o[c] },
             inventory_final) = 1

(***************************************************************************)
(* C4 as amended: every Observation gives exactly one output row, at its   *)
(* own (date, store, sku): a (date, Key) with Observations has as many     *)
(* output rows as Observations, and as many rows with given flow values as *)
(* Observations with them, a null flow value counted as 0.  In these rows  *)
(* a state column for which the (date, Key) has a non-null value holds a   *)
(* non-null value observed at that (date, Key): the Observation's own when *)
(* it is the only one there.                                               *)
(***************************************************************************)
FlowsOf(o, r) == \A c \in FlowCols : r[c] = Defaulted(o[c])

C4_ObservedRowsKept ==
  Finished =>
    \A o \in Rows(inventory_raw) :
      LET d == o.date
          k == KeyOf(o)
      IN  /\ CountAt(inventory_final, d, k) = CountAt(inventory_raw, d, k)
          /\ Copies({ r \in RowsAt(inventory_final, d, k) : FlowsOf(o, r) },
                    inventory_final)
             = Copies({ x \in RowsAt(inventory_raw, d, k) :
                          \A c \in FlowCols : Defaulted(x[c]) = Defaulted(o[c]) },
                      inventory_raw)
          /\ \A r \in RowsAt(inventory_final, d, k), c \in StateCols :
               NonNullAt(c, d, k) # {} => r[c] \in NonNullAt(c, d, k)
          /\ (CountAt(inventory_raw, d, k) = 1 =>
                \A r \in RowsAt(inventory_final, d, k), c \in MeasureCols :
                  o[c] # Null => r[c] = o[c])

\* An Observation that is alone on its (date, Key), with a null flow value
\* imputed as 0, a null state value imputed by carry-forward, and its
\* non-null values kept.
C4_Witness ==
  /\ Finished
  /\ \E o \in Rows(inventory_raw) :
       /\ CountAt(inventory_raw, o.date, KeyOf(o)) = 1
       /\ o.replenishment_units = Null
       /\ o.on_hand_inventory_units = Null
       /\ o.shelf_capacity # Null
       /\ \E r \in RowsAt(inventory_final, o.date, KeyOf(o)) :
            /\ r.replenishment_units = 0
            /\ r.on_hand_inventory_units # Null
            /\ r.shelf_capacity = o.shelf_capacity
            /\ r.inventory_pipeline = o.inventory_pipeline

(***************************************************************************)
(* C5: after imputation no output row has a null in a state column or in   *)
(* a flow column.                                                          *)
(* Violated: a Key's rows before its first non-null state value keep null. *)
(***************************************************************************)
C5_NoNulls ==
  Finished =>
    \A r \in Rows(inventory_final), c \in MeasureCols : r[c] # Null

(***************************************************************************)
(* C5 as amended: after imputation no output row has a null in a flow      *)
(* column, and a state column is null in exactly the rows of a Key that    *)
(* has no non-null value of that column on that day or before it.          *)
(***************************************************************************)
C5_NullsOnlyBeforeFirstValue ==
  Finished =>
    \A r \in Rows(inventory_final) :
      /\ \A c \in FlowCols : r[c] # Null
      /\ \A c \in StateCols : (r[c] = Null) <=> (KnownBy(c, r.date, KeyOf(r)) = {})

\* A Key whose on-hand value is null on an early day and known on a later one.
C5_Witness ==
  /\ Finished
  /\ \E r, q \in Rows(inventory_final) :
       /\ KeyOf(r) = KeyOf(q)
       /\ r.date < q.date
       /\ r.on_hand_inventory_units = Null
       /\ q.on_hand_inventory_units # Null
       /\ \A c \in FlowCols : r[c] # Null

(***************************************************************************)
(* C6: in every output row promotion_flag is 1 iff the row's imputed       *)
(* units_under_promotion > 0 and replenishment_flag is 1 iff its imputed   *)
(* replenishment_units > 0; both are 0 or 1 in every row, and 0 in a row   *)
(* without Observation.  The other columns are those of the imputed row.   *)
(***************************************************************************)
C6_Flags ==
  Finished =>
    /\ MapRows([r \in Rows(inventory_final) |-> AsObservation(r)], inventory_final)
         = inventory_cleansed
    /\ \A r \in Rows(inventory_final) :
         /\ r.promotion_flag \in {0, 1}
         /\ r.replenishment_flag \in {0, 1}
         /\ (r.promotion_flag = 1) <=> (r.units_under_promotion > 0)
         /\ (r.replenishment_flag = 1) <=> (r.replenishment_units > 0)
         /\ RowsAt(inventory_raw, r.date, KeyOf(r)) = {} =>
              (r.promotion_flag = 0 /\ r.replenishment_flag = 0)

\* One output holds a promotion without replenishment, a replenishment
\* without promotion, and a row without Observation.
C6_Witness ==
  /\ Finished
  /\ \E r \in Rows(inventory_final) : r.promotion_flag = 1 /\ r.replenishment_flag = 0
  /\ \E r \in Rows(inventory_final) : r.promotion_flag = 0 /\ r.replenishment_flag = 1
  /\ \E r \in Rows(inventory_final) :
       /\ RowsAt(inventory_raw, r.date, KeyOf(r)) = {}
       /\ r.promotion_flag = 0

(***************************************************************************)
(* C7: idempotence.  The notebook run on its own output, every output row  *)
(* taken as an Observation, gives an output identical to it, also when a   *)
(* state column is still null on a Key's first rows.                       *)
(***************************************************************************)
C7_Idempotent ==
  (run = 2 /\ Finished) => inventory_final = first_final

\* The second run has finished on an output that keeps a null on-hand value
\* on a Key's first row and holds a row that had no Observation.
C7_Witness ==
  /\ run = 2
  /\ pc = "done"
  /\ Count(first_final) > MaxObs
  /\ \E r, q \in Rows(first_final) :
       /\ KeyOf(r) = KeyOf(q)
       /\ r.date < q.date
       /\ r.on_hand_inventory_units = Null
       /\ q.on_hand_inventory_units # Null

(***************************************************************************)
(* C8: with an empty raw table the run fails with EmptyInputError at the   *)
(* derivation of the date range, and no output is produced or persisted.   *)
(* Violated: the exception is the TypeError of None - None.                *)
(***************************************************************************)
NothingProduced ==
  /\ dates = <<>>
  /\ store_skus = NoRows
  /\ inventory_with_gaps = NoRows
  /\ inventory_cleansed = NoRows
  /\ inventory_final = NoRows
  /\ osa_inventory = {}

C8_EmptyInputError ==
  (Rows(inventory_raw) = {} /\ pc \notin {"range", "dates"}) =>
    (pc = "failed" /\ error = "EmptyInputError" /\ NothingProduced)

(***************************************************************************)
(* C8 as amended: with an empty raw table the run fails at the derivation  *)
(* of the date range, with the TypeError that subtracting the missing      *)
(* start date from the missing end date raises; no cell after it runs, and *)
(* no output is produced or persisted.                                     *)
(***************************************************************************)
C8_EmptyInputFails ==
  (Rows(inventory_raw) = {} /\ pc \notin {"range", "dates"}) =>
    (pc = "failed" /\ error = "TypeError" /\ NothingProduced)

\* The run on the empty raw table has failed.
C8_Witness ==
  /\ Rows(inventory_raw) = {}
  /\ pc = "failed"
  /\ start_date = Null
  /\ end_date = Null

(***************************************************************************)
(* C9: store_skus has one row per observed (store, sku), its category is   *)
(* the category of the Key's chronologically last Observation (of one of   *)
(* them when several share that day), and every output row of the Key      *)
(* carries it.                                                             *)
(* Violated: the category is that of whichever row the group ends with.    *)
(***************************************************************************)
LastDayOf(k) == Max({ o.date : o \in Group(inventory_raw, k) })

C9_CategoryOfLastObservation ==
  /\ pc \notin {"range", "dates", "store_skus", "failed"} =>
       /\ \A k \in ObservedKeys :
            Copies({ ks \in Rows(store_skus) : KeyOf(ks) = k }, store_skus) = 1
       /\ \A ks \in Rows(store_skus) :
            /\ KeyOf(ks) \in ObservedKeys
            /\ \E o \in RowsAt(inventory_raw, LastDayOf(KeyOf(ks)), KeyOf(ks)) :
                 ks.product_category = o.product_category
  /\ Finished =>
       \A r \in Rows(inventory_final) :
         \E ks \in Rows(store_skus) :
           KeyOf(ks) = KeyOf(r) /\ r.product_category = ks.product_category

(***************************************************************************)
(* C10: carry-forward is scoped per Key.  However the scans of the         *)
(* partitions are interleaved, the rows a partition has scanned hold what  *)
(* the scan of that partition alone, in ascending date order, gives them:  *)
(* on a day with non-null values of the Key one of these, otherwise the    *)
(* value of the Key's previous day (null before the first); the            *)
(* partition's last-seen values are those of its last scanned day; the     *)
(* rows it has not scanned are as the join left them; and no state value   *)
(* of a row comes from another Key's Observation.                          *)
(***************************************************************************)
Filling == pc \in {"fill", "flags", "persist", "done"}

C10_PartitionScoped ==
  Filling =>
    \A k \in DOMAIN cursor :
      /\ \A d \in ObservedDays :
           IF d <= cursor[k]
             THEN \A r \in RowsAt(inventory_cleansed, d, k), c \in StateCols :
                    /\ \A q \in RowsAt(inventory_cleansed, d, k) : q[c] = r[c]
                    /\ IF NonNullAt(c, d, k) # {}
                         THEN r[c] \in NonNullAt(c, d, k)
                         ELSE IF d = Min(ObservedDays)
                                THEN r[c] = Null
                                ELSE \A q \in RowsAt(inventory_cleansed, d - 1, k) :
                                       r[c] = q[c]
                    /\ d = cursor[k] => last_seen[k][c] = r[c]
             ELSE /\ RowsAt(inventory_cleansed, d, k) = RowsAt(inventory_with_gaps, d, k)
                  /\ \A r \in RowsAt(inventory_cleansed, d, k) :
                       inventory_cleansed[r] = inventory_with_gaps[r]
      /\ cursor[k] = 0 => \A c \in StateCols : last_seen[k][c] = Null
      /\ \A r \in Group(inventory_cleansed, k), c \in StateCols :
           r[c] # Null => \E o \in Group(inventory_raw, k) : o.date <= r.date /\ o[c] = r[c]
      /\ Count(inventory_cleansed) = Count(inventory_with_gaps)

\* Two partitions in mid-scan, one ahead of the other, each with its own
\* last-seen on-hand value.
C10_Witness ==
  /\ pc = "fill"
  /\ \E k, j \in DOMAIN cursor :
       /\ 0 < cursor[k]
       /\ cursor[k] < cursor[j]
       /\ Ahead(inventory_cleansed, k, cursor[k]) # {}
       /\ last_seen[k]["on_hand_inventory_units"] # Null
       /\ last_seen[j]["on_hand_inventory_units"] # Null
       /\ last_seen[k]["on_hand_inventory_units"]
            # last_seen[j]["on_hand_inventory_units"]

====
